---------------------------- MODULE Spec2Model ----------------------------
(***************************************************************************)
(* A model of lib/apiVerifier.js of express-version-router: the parameter  *)
(* specification parser (parseParam), the value coercer (parseValue), the  *)
(* endpoint configuration builder (configure) and the per-request pipeline *)
(* (verify, getParams, checkParams, fillParams).                           *)
(*                                                                         *)
(* JavaScript values are tagged records:                                   *)
(*   undefined  [k |-> "undefined"]                                        *)
(*   null       [k |-> "null"]                                             *)
(*   string     [k |-> "string",  v |-> <<"a", "b">>]  (one entry per      *)
(*              character, so that the regular expression, split, trim,    *)
(*              toLowerCase, parseInt and parseFloat work on characters)   *)
(*   number     [k |-> "number",  v |-> n]  in tenths: 1.5 is 15, 18 is    *)
(*              180 (one fractional digit is kept, which is what tells     *)
(*              parseFloat from parseInt)                                  *)
(*   boolean    [k |-> "boolean", v |-> TRUE]                              *)
(*   array      [k |-> "array",   v |-> <<e1, ..., en>>]                   *)
(*   function   [k |-> "function", v |-> <<"name">>, ...]                  *)
(* A call that throws yields [k |-> "throw", v |-> message].               *)
(***************************************************************************)
EXTENDS Integers, Sequences, FiniteSets, TLC

Undef == [k |-> "undefined"]
Null == [k |-> "null"]
Str(s) == [k |-> "string", v |-> s]
Num(n) == [k |-> "number", v |-> n]
Bool(b) == [k |-> "boolean", v |-> b]
Arr(a) == [k |-> "array", v |-> a]
Throw(m) == [k |-> "throw", v |-> m]

\* The whole number n as a JavaScript number.
Whole(n) == Num(10 * n)

Threw(x) == x.k = "throw"

\* JavaScript's ToBoolean.
Truthy(x) ==
    CASE x.k = "undefined" -> FALSE
      [] x.k = "null" -> FALSE
      [] x.k = "string" -> Len(x.v) > 0
      [] x.k = "number" -> x.v # 0
      [] x.k = "boolean" -> x.v
      [] OTHER -> TRUE

----------------------------------------------------------------------------
(* Characters *)

UpperChars == <<"A", "B", "C", "D", "E", "F", "G", "H", "I", "J", "K", "L", "M",
                "N", "O", "P", "Q", "R", "S", "T", "U", "V", "W", "X", "Y", "Z">>
LowerChars == <<"a", "b", "c", "d", "e", "f", "g", "h", "i", "j", "k", "l", "m",
                "n", "o", "p", "q", "r", "s", "t", "u", "v", "w", "x", "y", "z">>
DigitChars == <<"0", "1", "2", "3", "4", "5", "6", "7", "8", "9">>

Range(s) == {s[i] : i \in DOMAIN s}

IsDigit(c) == c \in Range(DigitChars)

\* The value of a digit character.
DigitVal(c) == (CHOOSE i \in DOMAIN DigitChars : DigitChars[i] = c) - 1

\* \w of the regular expression: [A-Za-z0-9_].
WordChars == Range(UpperChars) \cup Range(LowerChars) \cup Range(DigitChars) \cup {"_"}
IsWordChar(c) == c \in WordChars

IsSpace(c) == c \in {" "}

\* String.prototype.toLowerCase, per character.
LowerChar(c) ==
    IF c \in Range(UpperChars)
    THEN LowerChars[CHOOSE i \in DOMAIN UpperChars : UpperChars[i] = c]
    ELSE c

toLowerCase(s) == [i \in DOMAIN s |-> LowerChar(s[i])]

\* String.prototype.trim.
trim(s) ==
    LET keep == {i \in DOMAIN s : ~IsSpace(s[i])}
    IN IF keep = {} THEN <<>>
       ELSE LET lo == CHOOSE i \in keep : \A j \in keep : i <= j
                hi == CHOOSE i \in keep : \A j \in keep : j <= i
            IN SubSeq(s, lo, hi)

\* String.prototype.split(','): the pieces between the commas, in order.
RECURSIVE split(_)
split(s) ==
    LET commas == {i \in DOMAIN s : s[i] = ","}
    IN IF commas = {} THEN <<s>>
       ELSE LET c == CHOOSE i \in commas : \A j \in commas : i <= j
            IN <<SubSeq(s, 1, c - 1)>> \o split(SubSeq(s, c + 1, Len(s)))

\* The length of the longest prefix of s, from position i on, made of digits.
RECURSIVE DigitRun(_, _)
DigitRun(s, i) ==
    IF i <= Len(s) /\ IsDigit(s[i]) THEN 1 + DigitRun(s, i + 1) ELSE 0

\* The whole number written by the digits s[i .. i + n - 1].
RECURSIVE DigitsValue(_, _, _)
DigitsValue(s, i, n) ==
    IF n = 0 THEN 0 ELSE 10 * DigitsValue(s, i, n - 1) + DigitVal(s[i + n - 1])

\* The position of the first character of s, from i on, that is no white
\* space; Len(s) + 1 when there is none.
RECURSIVE SkipSpace(_, _)
SkipSpace(s, i) ==
    IF i <= Len(s) /\ IsSpace(s[i]) THEN SkipSpace(s, i + 1) ELSE i

NaN == [k |-> "NaN"]

\* The whole number whose digits are the n characters of s from first on
\* (NaN without digits), with its sign.
WholePart(s, sign, first, n) ==
    IF n = 0 THEN NaN ELSE Num(sign * 10 * DigitsValue(s, first, n))

\* As WholePart, with the first digit of a fraction that follows the digits.
DecimalPart(s, sign, first, n) ==
    LET dot == first + n
        hasFrac == dot + 1 <= Len(s) /\ s[dot] = "." /\ IsDigit(s[dot + 1])
    IN IF n = 0 /\ ~hasFrac THEN NaN
       ELSE Num(sign * (10 * DigitsValue(s, first, n)
                        + (IF hasFrac THEN DigitVal(s[dot + 1]) ELSE 0)))

\* What parseInt and parseFloat share: leading white space is skipped and a
\* sign is read; the digits start at start or after the sign.
IsSigned(s, start) == start <= Len(s) /\ s[start] \in {"-", "+"}
SignAt(s, start) == IF IsSigned(s, start) /\ s[start] = "-" THEN -1 ELSE 1
DigitsAt(s, start) == IF IsSigned(s, start) THEN start + 1 ELSE start

parseIntAt(s, start) ==
    WholePart(s, SignAt(s, start), DigitsAt(s, start), DigitRun(s, DigitsAt(s, start)))

parseFloatAt(s, start) ==
    DecimalPart(s, SignAt(s, start), DigitsAt(s, start), DigitRun(s, DigitsAt(s, start)))

\* parseInt(value) for a string (radix 10); NaN for undefined.
parseInt(value) ==
    IF value.k = "string" THEN parseIntAt(value.v, SkipSpace(value.v, 1)) ELSE NaN

\* parseFloat(value) for a string; NaN for undefined.
parseFloat(value) ==
    IF value.k = "string" THEN parseFloatAt(value.v, SkipSpace(value.v, 1)) ELSE NaN

isNaN(x) == x.k \in {"NaN", "undefined"}

----------------------------------------------------------------------------
(* String literals of the source, character by character *)

T_any == <<"a", "n", "y">>
T_star == <<"*">>
T_string == <<"s", "t", "r", "i", "n", "g">>
T_bool == <<"b", "o", "o", "l">>
T_boolean == <<"b", "o", "o", "l", "e", "a", "n">>
T_number == <<"n", "u", "m", "b", "e", "r">>
T_float == <<"f", "l", "o", "a", "t">>
T_double == <<"d", "o", "u", "b", "l", "e">>
T_integer == <<"i", "n", "t", "e", "g", "e", "r">>
T_short == <<"s", "h", "o", "r", "t">>

L_true == <<"t", "r", "u", "e">>
L_yes == <<"y", "e", "s">>
L_false == <<"f", "a", "l", "s", "e">>
L_no == <<"n", "o">>
L_FALSE == <<"F", "A", "L", "S", "E">>

TrueTokens == {L_true, <<"t">>, L_yes, <<"y">>, <<"1">>}
FalseTokens == {L_false, <<"f">>, L_no, <<"n">>, <<"0">>}

InvalidTypeMsg ==
    <<"I", "n", "v", "a", "l", "i", "d", " ", "t", "y", "p", "e", " ", "d",
    "e", "f", "i", "n", "e", "d", " ", "f", "o", "r", " ", "p", "a", "r", "a",
    "m", "e", "t", "e", "r", ":", " ">>
IncompatibleMsg ==
    <<"G", "i", "v", "e", "n", " ", "p", "a", "r", "a", "m", "e", "t", "e",
    "r", " ", "i", "s", " ", "i", "n", "c", "o", "m", "p", "a", "t", "i", "b",
    "l", "e">>
TypeErrorMsg ==
    <<"T", "y", "p", "e", "E", "r", "r", "o", "r">>
NotSetMsg ==
    <<"n", "o", "t", " ", "s", "e", "t">>
ExceedsMaxMsg ==
    <<"v", "a", "l", "u", "e", " ", "e", "x", "c", "e", "e", "d", "s", " ",
    "m", "a", "x", " ", "v", "a", "l", "u", "e">>
BelowMinMsg ==
    <<"v", "a", "l", "u", "e", " ", "b", "e", "l", "o", "w", " ", "m", "i",
    "n", " ", "v", "a", "l", "u", "e">>
MissingMsg ==
    <<"R", "e", "q", "u", "i", "r", "e", "d", " ", "p", "a", "r", "a", "m",
    "e", "t", "e", "r", "s", " ", "a", "r", "e", " ", "m", "i", "s", "s", "i",
    "n", "g">>

----------------------------------------------------------------------------
(* parseValue: the value coercer *)

\* isNaN(value) && (value = undefined); return value;
NaNToUndefined(value) == IF isNaN(value) THEN Undef ELSE value

\* The inner switch of the boolean case, on the trimmed, lower-cased value.
parseBoolean(token) ==
    IF token \in TrueTokens THEN Bool(TRUE)
    ELSE IF token \in FalseTokens THEN Bool(FALSE)
    ELSE Undef

\* The switch of parseValue, for a value that is not treated as an array.
parseScalar(type, value) ==
    CASE type \in {T_star, T_any, T_string} ->
           \* value && value.length || (value = undefined)
           IF value.k = "string" /\ Len(value.v) > 0 THEN value ELSE Undef
      [] type \in {T_bool, T_boolean} ->
           IF value.k = "boolean" THEN value
           ELSE IF value.k = "string" /\ Len(value.v) > 0
           THEN parseBoolean(toLowerCase(trim(value.v)))
           ELSE Undef
      [] type \in {T_number, T_float, T_double} -> NaNToUndefined(parseFloat(value))
      [] type \in {T_integer, T_short} -> NaNToUndefined(parseInt(value))
      [] OTHER -> Throw(InvalidTypeMsg \o type)

\* What a map() over entries yields: the error of the first entry that
\* threw, else the array of the results.
MapResult(parsed) ==
    IF \E i \in DOMAIN parsed : Threw(parsed[i])
    THEN parsed[CHOOSE i \in DOMAIN parsed :
                  Threw(parsed[i]) /\ \A j \in 1 .. i - 1 : ~Threw(parsed[j])]
    ELSE Arr(parsed)

\* The strings of a sequence of character sequences.
Strs(parts) == [i \in DOMAIN parts |-> Str(parts[i])]

RECURSIVE parseValue(_, _, _)
\* entries.map(entry => parseValue(type, entry, false))
parseEntries(type, entries) ==
    MapResult([i \in DOMAIN entries |-> parseValue(type, entries[i], FALSE)])

parseValue(type, value, array) ==
    IF value.k = "array" THEN parseEntries(type, value.v)
    ELSE IF Truthy(value) /\ array
    THEN IF value.k = "string" THEN parseEntries(type, Strs(split(value.v)))
         ELSE Throw(TypeErrorMsg)  \* value.split is not a function
    ELSE parseScalar(type, value)

----------------------------------------------------------------------------
(* parseParam: the parameter specification parser *)

\* A JavaScript function value (a hook).
Fn(id) == [k |-> "function", v |-> id]

\* A parameter definition object.  An absent property is undefined.
ParamDef(type, def, required, array, min, max, validate) ==
    [k |-> "object", type |-> type, default |-> def, required |-> required,
     array |-> array, min |-> min, max |-> max, validate |-> validate,
     error |-> Undef, success |-> Undef]

\* The position of the first character of str, from i on, that is in set;
\* 0 when there is none.
RECURSIVE Find(_, _, _)
Find(str, i, set) ==
    IF i > Len(str) THEN 0
    ELSE IF str[i] \in set THEN i
    ELSE Find(str, i + 1, set)

\* The position after the run of word characters of str that starts at i.
RECURSIVE WordEnd(_, _)
WordEnd(str, i) ==
    IF i <= Len(str) /\ IsWordChar(str[i]) THEN WordEnd(str, i + 1) ELSE i

\* (\[])? matches at p.
HasBrackets(str, p) == p + 1 <= Len(str) /\ str[p] = "[" /\ str[p + 1] = "]"

\* The groups of the match: the word is str[start .. p - 1], the brackets are
\* matched or not, and (\(([^)]*)\))? matches at q when "(" is there and a
\* ")" follows it, up to the first one, at close.
MatchGroups(str, start, p, brackets, q, close) ==
    LET default == q <= Len(str) /\ str[q] = "(" /\ close # 0
    IN Arr(<<Str(SubSeq(str, start, p - 1)),
             IF brackets THEN Str(<<"[", "]">>) ELSE Undef,
             IF default THEN Str(SubSeq(str, q, close)) ELSE Undef,
             IF default THEN Str(SubSeq(str, q + 1, close - 1)) ELSE Undef>>)

MatchDefault(str, start, p, brackets, q) ==
    MatchGroups(str, start, p, brackets, q, Find(str, q + 1, {")"}))

MatchBrackets(str, start, p) ==
    MatchDefault(str, start, p, HasBrackets(str, p),
                 IF HasBrackets(str, p) THEN p + 2 ELSE p)

MatchWord(str, start) ==
    IF start = 0 THEN Null ELSE MatchBrackets(str, start, WordEnd(str, start))

\* str.match(paramMatcher) with paramMatcher = /(\w+)(\[])?(\(([^)]*)\))?/:
\* the leftmost run of word characters, then "[]" if it follows, then a
\* parenthesized segment without ")" inside if one follows.  Null when the
\* string holds no word character; else the groups <<1, 2, 3, 4>>, an
\* unmatched group being undefined.
paramMatcher(str) == MatchWord(str, Find(str, 1, WordChars))

\* The cases of switch (str.required) that set required to false.
RequiredFalse ==
    {Whole(0), Str(L_FALSE), Str(L_false), Str(<<"F">>), Str(<<"f">>),
     Str(L_no), Str(<<"n">>), Bool(FALSE)}

\* return { type, default: def, required, array }, unless parseValue threw.
CompactDef(type, def, required, array) ==
    IF Threw(def) THEN def
    ELSE ParamDef(type, def, Bool(required), Bool(array), Undef, Undef, Undef)

\* The string branch of parseParam, given the match.
parseCompactType(type, match) ==
    CompactDef(type, parseValue(type, match.v[4], Truthy(match.v[2])),
               ~Truthy(match.v[3]), Truthy(match.v[2]))

parseCompact(match) ==
    IF match = Null THEN Throw(TypeErrorMsg)  \* match[1] of null
    ELSE parseCompactType(toLowerCase(trim(match.v[1].v)), match)

\* parseObject with str.required = true in the default case.
parseObjectDeclared(str) ==
    [str EXCEPT
       !.required = IF str.required \in RequiredFalse THEN Bool(FALSE) ELSE Bool(TRUE),
       !.array = Bool(Truthy(str.array))]

\* The object branch of parseParam.
parseObject(str) ==
    [str EXCEPT
       !.required = IF str.required \in RequiredFalse THEN Bool(FALSE)
                    ELSE Bool(str.default = Undef),
       !.array = Bool(Truthy(str.array))]

parseParam(str) ==
    IF str.k = "string" THEN parseCompact(paramMatcher(str.v))
    ELSE IF str.k = "object" THEN parseObject(str)
    ELSE IF str.k = "null" THEN Throw(TypeErrorMsg)  \* null.required
    ELSE Throw(IncompatibleMsg)

----------------------------------------------------------------------------
(* Objects, property names and callbacks *)

\* A JavaScript object used as a map: m is a function from its property
\* names to their values.
Obj(m) == [k |-> "object", m |-> m]

EmptyMap == [n \in {} |-> Undef]

\* a || b.
Or(a, b) == IF Truthy(a) THEN a ELSE b

\* a || b for property names (the empty name is the falsy one, and stands
\* for an absent name too).
OrName(a, b) == IF a # "" THEN a ELSE b

\* ToInt32, which a bitwise operator applies to its operands: undefined, a
\* function and an object give 0.
ToInt32(x) ==
    IF x.k = "number" THEN (IF x.v >= 0 THEN x.v \div 10 ELSE -((-x.v) \div 10))
    ELSE IF x.k = "boolean" THEN (IF x.v THEN 1 ELSE 0)
    ELSE 0

\* a | b for operands whose ToInt32 is 0 or 1.
BitOr(a, b) == Whole(IF ToInt32(a) = 0 THEN ToInt32(b) ELSE ToInt32(a))

\* A validator callback.  Its body is the caller's code: the value says when
\* it answers ret ("always", or only for an "absent" or a "present" value);
\* otherwise it answers undefined.
Validator(id, when, ret) == [k |-> "function", v |-> id, when |-> when, ret |-> ret]

\* paramConfig.validate(value, param, paramConfig)
CallValidate(validate, value, param, paramConfig) ==
    IF \/ validate.when = "always"
       \/ validate.when = "absent" /\ value = Undef
       \/ validate.when = "present" /\ value # Undef
    THEN validate.ret
    ELSE Undef

----------------------------------------------------------------------------
(* getParams, checkParams, fillParams *)

\* The names an object used as a map holds.
Keys(obj) == IF obj.k = "object" THEN DOMAIN obj.m ELSE {}

\* The first error among the values of a map, else the map as an object.
FirstError(parsed) ==
    IF \E param \in DOMAIN parsed : Threw(parsed[param])
    THEN parsed[CHOOSE param \in DOMAIN parsed : Threw(parsed[param])]
    ELSE Obj(parsed)

\* if (params[param] === undefined && config.params[param])
Wanted(config, params, param) ==
    param \in Keys(config.params) /\ params[param] = Undef

\* The inner loop of getParams over one source: every declared parameter the
\* source holds and that is still undefined is parsed from it.
getParamsFromSource(config, source, params) ==
    FirstError([param \in DOMAIN params |->
                  IF param \in Keys(source) /\ Wanted(config, params, param)
                  THEN parseValue(config.params.m[param].type, source.m[param],
                                  Truthy(config.params.m[param].array))
                  ELSE params[param]])

\* req[prop]
Prop(req, prop) == IF prop \in DOMAIN req.props THEN req.props[prop] ELSE Undef

\* The outer loop of getParams, from the i-th source of paramOrder on; params
\* is the object built so far, or the error thrown.
RECURSIVE getParamsFrom(_, _, _, _)
getParamsFrom(config, req, i, params) ==
    IF Threw(params) \/ i > Len(config.paramOrder.v) THEN params
    ELSE getParamsFrom(config, req, i + 1,
            IF Truthy(Prop(req, config.paramOrder.v[i]))
            THEN getParamsFromSource(config, Prop(req, config.paramOrder.v[i]), params.m)
            ELSE params)

\* An object holding the parameters found on the request (a parameter that
\* was not found reads as undefined), or the error thrown.
getParams(config, req) ==
    IF config.paramOrder.k # "array" THEN Throw(TypeErrorMsg)  \* not iterable
    ELSE getParamsFrom(config, req, 1, Obj([param \in Keys(config.params) |-> Undef]))

\* An entry of the errors map.
MissingInfo(type, error, min, max) ==
    [k |-> "object", type |-> type, error |-> error, min |-> min, max |-> max]

\* What the bounds of a parameter bound: value.length for 'string', the value
\* for 'number', nothing for another type.
Measured(type, value) ==
    IF type = T_string /\ value.k = "string" THEN Whole(Len(value.v))
    ELSE IF type = T_number THEN value
    ELSE Undef

\* a > b for numbers; false when an operand is none.
Greater(a, b) == a.k = "number" /\ b.k = "number" /\ a.v > b.v

\* if (!isNaN(paramConfig.max)) { ... }
checkMax(paramConfig, value, error) ==
    IF ~isNaN(paramConfig.max) /\ Greater(Measured(paramConfig.type, value), paramConfig.max)
    THEN MissingInfo(paramConfig.type, Str(ExceedsMaxMsg), Undef, paramConfig.max)
    ELSE error

\* if (!isNaN(paramConfig.min)) { ... }
checkMin(paramConfig, value, error) ==
    IF ~isNaN(paramConfig.min) /\ Greater(paramConfig.min, Measured(paramConfig.type, value))
    THEN MissingInfo(paramConfig.type, Str(BelowMinMsg), paramConfig.min, Undef)
    ELSE error

\* checkBounds with the two checks in the other order.
checkBoundsMinFirst(paramConfig, value, error) ==
    IF Truthy(value)
    THEN checkMax(paramConfig, value, checkMin(paramConfig, value, error))
    ELSE error

\* The body of the loop over values for one value: the max check, then the
\* min check, each overwriting the error recorded so far.
checkBounds(paramConfig, value, error) ==
    IF Truthy(value)
    THEN checkMin(paramConfig, value, checkMax(paramConfig, value, error))
    ELSE error

\* The loop over values, from the i-th on.
RECURSIVE checkValues(_, _, _, _)
checkValues(paramConfig, values, i, error) ==
    IF i > Len(values) THEN error
    ELSE checkValues(paramConfig, values, i + 1, checkBounds(paramConfig, values[i], error))

\* if (error) { errors[param] = { type: paramConfig.type, error } }
checkValidated(paramConfig, error) ==
    IF Truthy(error) THEN MissingInfo(paramConfig.type, error, Undef, Undef) ELSE Undef

\* if (paramConfig.required && (value === undefined || Array.isArray(value) && !value.length))
checkRequired(paramConfig, value) ==
    IF /\ Truthy(paramConfig.required)
       /\ (value = Undef \/ (value.k = "array" /\ Len(value.v) = 0))
    THEN MissingInfo(paramConfig.type, Str(NotSetMsg), Undef, Undef)
    ELSE Undef

\* checkParam without the continue after the validator: the built-in checks
\* run for a validated parameter too.
checkParamNoContinue(param, paramConfig, value) ==
    checkValues(paramConfig, IF value.k = "array" THEN value.v ELSE <<value>>, 1,
                IF checkRequired(paramConfig, value) # Undef
                THEN checkRequired(paramConfig, value)
                ELSE IF Truthy(paramConfig.validate)
                THEN checkValidated(paramConfig,
                        CallValidate(paramConfig.validate, value, param, paramConfig))
                ELSE Undef)

\* The body of the loop of checkParams for one parameter: the error recorded
\* for it, undefined when none is.
checkParam(param, paramConfig, value) ==
    IF Truthy(paramConfig.validate)
    THEN checkValidated(paramConfig,
                        CallValidate(paramConfig.validate, value, param, paramConfig))
    ELSE checkValues(paramConfig, IF value.k = "array" THEN value.v ELSE <<value>>, 1,
                     checkRequired(paramConfig, value))

\* The entries of a map that are not undefined, as an object.
Defined(all) == Obj([param \in {q \in DOMAIN all : all[q] # Undef} |-> all[param]])

\* The errors map: an entry for each parameter with an error.
checkParams(config, params) ==
    Defined([param \in Keys(config.params) |->
               checkParam(param, config.params.m[param], params.m[param])])

\* fillParams with if (!params[param]): a falsy value gets the default too.
fillParamsFalsy(config, params) ==
    Obj([param \in Keys(config.params) |->
           IF ~Truthy(params.m[param]) THEN config.params.m[param].default
           ELSE params.m[param]])

fillParams(config, params) ==
    Obj([param \in Keys(config.params) |->
           IF params.m[param] = Undef THEN config.params.m[param].default
           ELSE params.m[param]])

----------------------------------------------------------------------------
(* The registry of endpoints and the responder (collaborators) *)

\* context.endpoints.add(path, method, version, api)
EndpointsAdd(store, path, method, version, api) ==
    store \cup {[path |-> path, method |-> method, version |-> version, api |-> api]}

\* The entries of the registry a request's path, method and version match: an
\* entry registered without versions matches every version.
EndpointsMatching(store, path, method, incomingVersion) ==
    {e \in store : /\ e.path = path
                   /\ e.method = method
                   /\ (Len(e.version) = 0 \/ incomingVersion \in Range(e.version))}

\* context.endpoints.get(path, method, incomingVersion): undefined when no
\* entry matches.
EndpointsGet(store, path, method, incomingVersion) ==
    LET found == EndpointsMatching(store, path, method, incomingVersion)
    IN IF found = {} THEN Undef ELSE (CHOOSE e \in found : TRUE).api

\* What verify does last, as an event: it calls the continuation, ...
NextEvent == [ev |-> "next"]

\* ... or hands the request, the response and the continuation to a hook,
\* with the hook's first argument, ...
HookEvent(fn, arg) == [ev |-> "hook", fn |-> fn, arg |-> arg]

\* ... or responder.respond(req, res, body, status, next).
RespondEvent(body, status) == [ev |-> "respond", body |-> body, status |-> status]

----------------------------------------------------------------------------
(* configure and verify *)

\* The body of the loop of configure: a parsed definition with its hooks
\* filled in; the error when parseParam threw.
configureParam(configuration, api, parsed) ==
    IF Threw(parsed) THEN parsed
    ELSE [parsed EXCEPT
            !.error = Or(BitOr(parsed.error, api.error), configuration.error),
            !.validate = Or(Or(parsed.validate, api.validate), configuration.validate),
            !.success = Or(Or(parsed.success, api.success), configuration.success)]

\* The loop of configure over the given params: the error of a parseParam
\* that throws, else the map of the definitions.
configureParams(configuration, api, given) ==
    FirstError([param \in DOMAIN given |->
                  configureParam(configuration, api, parseParam(given[param]))])

\* The end of configure: the endpoint is added unless the loop threw.
configured(configuration, api, version, params) ==
    IF Threw(params)
    THEN [threw |-> params, add |-> FALSE, api |-> Undef, middleware |-> "none"]
    ELSE [threw |-> Undef, add |-> TRUE, middleware |-> "verify",
          api |-> [api EXCEPT
                     !.paramOrder = Or(api.paramOrder, configuration.paramOrder),
                     !.paramMap = OrName(OrName(api.paramMap, configuration.paramMap), "args"),
                     !.params = params,
                     !.version = IF Len(version) # 0 THEN version ELSE api.version]]

\* configure(context, {path, method, api, version}).  What it returns is the
\* middleware ("next": (req, res, next) => next(); "verify": verify bound to
\* the context); add says whether the registry got the endpoint, and api is
\* the endpoint then; threw holds the error when it throws.
configure(configuration, path, method, api, version) ==
    IF ~Truthy(api) \/ api.k = "function" \/ method = "param"
    THEN [threw |-> Undef, add |-> FALSE, api |-> Undef, middleware |-> "next"]
    ELSE configured(configuration, api, version,
                    configureParams(configuration, api,
                        IF Truthy(api.params) THEN api.params.m ELSE EmptyMap))

\* req[name] = value
SetProp(props, name, value) ==
    [n \in DOMAIN props \cup {name} |-> IF n = name THEN value ELSE props[n]]

\* The body of a 422 response to a request whose extraction threw.
ExtractionErrorBody(e) == [k |-> "object", error |-> Str(e.v), params |-> Obj(EmptyMap)]

\* The body of a 422 response to a rejected request, in development.
MissingBody(missing) == [k |-> "object", error |-> Str(MissingMsg), params |-> missing]

\* verify(req, res, next) with this = the context, statement by statement.
\* A run of it is a record: the request, the locals config, params (as
\* getParams left it) and missing, the events so far, and whether it returned.
VerifyStart(store, req) ==
    [req |-> req,
     config |-> EndpointsGet(store, req.path, req.method, req.incomingVersion),
     params |-> Undef, missing |-> Undef, out |-> <<>>, returned |-> FALSE]

\* return X: the event of X, and nothing after it runs.
Return(run, event) == [run EXCEPT !.out = Append(@, event), !.returned = TRUE]

\* if (!config) { return next(); }
VerifyLookup(run) ==
    IF ~Truthy(run.config) THEN Return(run, NextEvent) ELSE run

\* catch (e) { ... }, when run.params is the error thrown.
VerifyCatch(run) ==
    IF ~Threw(run.params) THEN run
    ELSE IF Truthy(run.config.error)
    THEN Return(run, HookEvent(run.config.error, run.params))
    ELSE Return(run, RespondEvent(ExtractionErrorBody(run.params), 422))

\* try { params = getParams(config, req) } catch (e) { ... }
VerifyExtract(run) ==
    IF run.returned THEN run
    ELSE VerifyCatch([run EXCEPT !.params = getParams(run.config, run.req)])

\* if (Object.keys(missing).length) { ... }
VerifyReject(nodeEnv, run) ==
    IF Keys(run.missing) = {} THEN run
    ELSE IF Truthy(run.config.error)
    THEN Return(run, HookEvent(run.config.error, run.missing))
    ELSE IF nodeEnv = "development"
    THEN Return(run, RespondEvent(MissingBody(run.missing), 422))
    ELSE Return(run, RespondEvent(Null, 422))

\* let missing = checkParams(config, params); if (...) { ... }
VerifyCheck(nodeEnv, run) ==
    IF run.returned THEN run
    ELSE VerifyReject(nodeEnv, [run EXCEPT !.missing = checkParams(run.config, run.params)])

\* VerifySuccess without its return: the hook is called and verify goes on.
VerifySuccessNoReturn(run) ==
    IF Truthy(run.config.success)
    THEN [run EXCEPT !.out = Append(@, HookEvent(run.config.success, Null))]
    ELSE run

\* if (config.success) { return config.success(null, req, res, next); }
VerifySuccess(run) ==
    IF Truthy(run.config.success)
    THEN Return(run, HookEvent(run.config.success, Null))
    ELSE run

\* req[config.paramMap] = fillParams(config, params);
VerifyAccept(run) ==
    IF run.returned THEN run
    ELSE VerifySuccess([run EXCEPT
            !.req.props = SetProp(@, run.config.paramMap,
                                  fillParams(run.config, run.params))])

\* next();
VerifyContinue(run) ==
    IF run.returned THEN run ELSE Return(run, NextEvent)

verify(store, nodeEnv, req) ==
    VerifyContinue(VerifyAccept(VerifyCheck(nodeEnv,
        VerifyExtract(VerifyLookup(VerifyStart(store, req))))))

----------------------------------------------------------------------------
(* The state *)

VARIABLES
    configuration,  \* context.configuration, the process-wide defaults
    nodeEnv,        \* process.env.NODE_ENV
    endpoints,      \* context.endpoints, the registry
    middleware,     \* per route, what configure returned for it
    thrown,         \* the error configure threw, undefined when none
    pc,             \* "idle", or "done" once a request went through its route
    received,       \* the request as it came in
    req,            \* the request after its middleware ran
    params,         \* verify's local params, as getParams left it
    missing,        \* verify's local missing
    out,            \* what the middleware did last: the events, in order
    call,           \* a direct call of an exported function: its arguments
    result          \* and what it returned

vars == <<configuration, nodeEnv, endpoints, middleware, thrown, pc, received,
          req, params, missing, out, call, result>>

pipelineVars == <<configuration, nodeEnv, endpoints, middleware, thrown,
                  received, req, params, missing, out>>

----------------------------------------------------------------------------
(* The inputs of the pipeline *)

\* How many routes are configured at most.
MaxConfigured == 1

Paths == {"/a", "/b"}

S_string == Str(T_string)
S_integer18 == Str(T_integer \o <<"(", "1", "8", ")">>)
T_foo == <<"f", "o", "o">>

GlobalError == Fn("globalError")
GlobalSuccess == Fn("globalSuccess")
GlobalValidate == Validator("globalValidate", "absent", Str(<<"g">>))
ApiError == Fn("apiError")
ApiSuccess == Fn("apiSuccess")
ApiValidate == Validator("apiValidate", "absent", Str(<<"a">>))
ParamValidate == Validator("paramValidate", "present", Str(<<"p">>))

\* The process-wide configurations: without hooks, and with all of them.
Configurations ==
    {[paramOrder |-> Arr(<<"query", "body">>), paramMap |-> "",
      error |-> Undef, validate |-> Undef, success |-> Undef],
     [paramOrder |-> Arr(<<"query", "body">>), paramMap |-> "input",
      error |-> GlobalError, validate |-> GlobalValidate, success |-> GlobalSuccess]}

\* An endpoint's api argument.
Api(paramSpecs, paramOrder, paramMap, error, validate, success) ==
    [k |-> "object", params |-> paramSpecs, paramOrder |-> paramOrder,
     paramMap |-> paramMap, error |-> error, validate |-> validate,
     success |-> success, version |-> <<>>]

\* params: {name: 'string', age: 'integer(18)'}
ExampleParams == Obj(("name" :> S_string) @@ ("age" :> S_integer18))

\* params: {name: 'string', age: {type: 'foo'}}
ObjectFooParams ==
    Obj(("name" :> S_string)
        @@ ("age" :> ParamDef(T_foo, Undef, Undef, Undef, Undef, Undef, Undef)))

\* params: {name: 'foo'}
CompactFooParams == Obj("name" :> Str(T_foo))

\* params: {name: {type: 'string', validate: paramValidate}, age: 'integer(18)'}
ValidatedParams ==
    Obj(("name" :> ParamDef(T_string, Undef, Undef, Undef, Undef, Undef, ParamValidate))
        @@ ("age" :> S_integer18))

BodyFirst == Arr(<<"body", "query">>)

Apis ==
    {Api(ExampleParams, Undef, "", Undef, Undef, Undef),
     Api(ExampleParams, Undef, "", ApiError, Undef, Undef),
     Api(ExampleParams, Undef, "", Undef, Undef, ApiSuccess),
     Api(ExampleParams, Undef, "", Undef, ApiValidate, Undef),
     Api(ExampleParams, BodyFirst, "data", ApiError, ApiValidate, ApiSuccess),
     Api(ObjectFooParams, Undef, "", Undef, Undef, Undef),
     Api(ObjectFooParams, Undef, "", ApiError, Undef, Undef),
     Api(CompactFooParams, Undef, "", Undef, Undef, Undef),
     Api(ValidatedParams, Undef, "", Undef, Undef, Undef),
     Api(ValidatedParams, Undef, "", Undef, ApiValidate, Undef),
     Api(Undef, Undef, "", Undef, Undef, Undef)}

\* What configure is called with: an api under "get" for version 1 or for
\* every version, a route without api, a route whose api is its handler, and
\* a router.param registration.
Registrations ==
    [method : {"get"}, api : Apis, version : {<<1>>}]
    \cup {[method |-> "get", api |-> Api(ExampleParams, Undef, "", Undef, Undef, Undef),
           version |-> <<>>],
          [method |-> "get", api |-> Undef, version |-> <<1>>],
          [method |-> "get", api |-> Fn("handler"), version |-> <<1>>],
          [method |-> "param", api |-> Api(ExampleParams, Undef, "", Undef, Undef, Undef),
           version |-> <<1>>]}

\* What a request holds under a source name: nothing, or a map of raw values.
Sources ==
    {Undef,
     Obj("name" :> Str(<<"A", "l">>)),
     Obj("age" :> Str(<<"0">>)),
     Obj(("name" :> Str(<<"B", "o">>)) @@ ("age" :> Str(<<"x">>)))}

Requests ==
    {[path |-> path, method |-> "get", incomingVersion |-> version,
      props |-> ("query" :> query) @@ ("body" :> body)] :
        path \in Paths, version \in {1, 2}, query \in Sources, body \in Sources}

----------------------------------------------------------------------------
(* The pipeline: routes are configured, requests go through them *)

NoCall == call = Undef /\ result = Undef

Init ==
    /\ configuration \in Configurations
    /\ nodeEnv \in {"development", "production"}
    /\ endpoints = {}
    /\ middleware = [path \in Paths |-> "none"]
    /\ thrown = Undef
    /\ pc = "idle"
    /\ received = Undef
    /\ req = Undef
    /\ params = Undef
    /\ missing = Undef
    /\ out = <<>>
    /\ NoCall

\* The state after configure, given what it did.
Configured(path, registration, done) ==
    /\ thrown' = done.threw
    /\ endpoints' = IF done.add
                    THEN EndpointsAdd(endpoints, path, registration.method,
                                      registration.version, done.api)
                    ELSE endpoints
    /\ middleware' = [middleware EXCEPT ![path] = done.middleware]

\* router.<method>(path, api, ...): configure runs for the route.  An error it
\* throws is not caught here: nothing is configured after it.
Configure(path, registration) ==
    /\ pc = "idle"
    /\ thrown = Undef
    /\ middleware[path] = "none"
    /\ Cardinality({p \in Paths : middleware[p] # "none"}) < MaxConfigured
    /\ Configured(path, registration,
                  configure(configuration, path, registration.method,
                            registration.api, registration.version))
    /\ UNCHANGED <<configuration, nodeEnv, pc, received, req, params, missing,
                   out, call, result>>

\* The state after a request's middleware ran, given its run.
Handled(run) ==
    /\ req' = run.req
    /\ params' = run.params
    /\ missing' = run.missing
    /\ out' = run.out

\* (req, res, next) => next(), the middleware of a route without api.
passThrough(request) ==
    [req |-> request, params |-> Undef, missing |-> Undef, out |-> <<NextEvent>>]

\* A request reaches the middleware of its route.
Request(request) ==
    /\ pc = "idle"
    /\ thrown = Undef
    /\ middleware[request.path] # "none"
    /\ pc' = "done"
    /\ received' = request
    /\ Handled(IF middleware[request.path] = "verify"
               THEN verify(endpoints, nodeEnv, request)
               ELSE passThrough(request))
    /\ UNCHANGED <<configuration, nodeEnv, endpoints, middleware, thrown,
                   call, result>>

\* The request is over; the next one can come.
EndRequest ==
    /\ pc = "done"
    /\ pc' = "idle"
    /\ received' = Undef
    /\ req' = Undef
    /\ params' = Undef
    /\ missing' = Undef
    /\ out' = <<>>
    /\ UNCHANGED <<configuration, nodeEnv, endpoints, middleware, thrown, call, result>>

Next ==
    \/ \E path \in Paths, registration \in Registrations : Configure(path, registration)
    \/ \E request \in Requests : Request(request)
    \/ EndRequest

Spec == Init /\ [][Next]_vars

----------------------------------------------------------------------------
(* Direct calls of parseParam *)

\* No route is configured and no request comes: only direct calls are made.
InitCalls ==
    /\ configuration = [paramOrder |-> Arr(<<"query", "body">>), paramMap |-> "",
                        error |-> Undef, validate |-> Undef, success |-> Undef]
    /\ nodeEnv = "production"
    /\ endpoints = {}
    /\ middleware = [path \in Paths |-> "none"]
    /\ thrown = Undef
    /\ pc = "idle"
    /\ received = Undef
    /\ req = Undef
    /\ params = Undef
    /\ missing = Undef
    /\ out = <<>>
    /\ NoCall

\* The type tokens of the compact specifications: recognized ones, one in
\* upper case, unknown ones.
CompactTypes ==
    {T_string, T_integer, T_number, T_boolean, T_any, T_short,
     <<"S", "t", "r", "i", "n", "g">>, T_foo, <<"i", "n", "t">>}

\* What stands between the parentheses of a compact specification.
DefaultLiterals ==
    {<<>>, <<"1", "8">>, <<"1", ",", "2", ",", "3">>, <<"a", "b", "c">>, L_true,
     <<"1", ".", "5">>, <<",">>, <<" ", "7">>, <<"-", "4">>}

\* type, then "[]" for an array, then "(literal)" when a default segment is
\* there.
Compact(type, array, segment, literal) ==
    Str(type \o (IF array THEN <<"[", "]">> ELSE <<>>)
             \o (IF segment THEN <<"(">> \o literal \o <<")">> ELSE <<>>))

\* Strings outside that grammar: empty, without a type, with white space
\* before the type and before the segment, with an unclosed segment.
OddStrings ==
    {Str(<<>>), Str(<<"(", ")">>), Str(<<" ">> \o T_string),
     Str(T_string \o <<" ", "(", "5", ")">>), Str(T_string \o <<"(", "a", "b">>),
     Str(T_integer \o <<"[", "(", "1", ")">>)}

\* The values of required and of default in a structured specification.
RequiredSpellings ==
    {Undef, Null, Bool(TRUE), Bool(FALSE), Whole(0), Whole(1), Str(L_FALSE),
     Str(L_false), Str(<<"F">>), Str(<<"f">>), Str(L_no), Str(<<"n">>),
     Str(L_true), Str(L_yes), Str(<<"F", "a", "l", "s", "e">>), Str(<<>>)}

Defaults == {Undef, Null, Whole(5), Whole(0), Str(<<>>), Bool(FALSE), Arr(<<>>)}

StructuredSpecs ==
    {ParamDef(type, def, required, array, Undef, Undef, Undef) :
        type \in {T_string, T_foo}, def \in Defaults,
        required \in RequiredSpellings, array \in {Undef, Bool(TRUE), Whole(0)}}

\* Neither a string nor an object (null is one for typeof).
OtherSpecs == {Undef, Null, Whole(3), Bool(TRUE), Fn("handler")}

\* A direct call returned value.
Returned(value) ==
    /\ pc' = "done"
    /\ result' = value
    /\ UNCHANGED pipelineVars

\* parseParam(str) for a compact specification.
ParseCompactCall(type, array, segment, literal) ==
    /\ pc = "idle"
    /\ call' = [fn |-> "parseParam", grammar |-> "compact", array |-> array,
                segment |-> segment, str |-> Compact(type, array, segment, literal)]
    /\ Returned(parseParam(Compact(type, array, segment, literal)))

\* parseParam(str) for another argument.
ParseParamCall(grammar, str) ==
    /\ pc = "idle"
    /\ call' = [fn |-> "parseParam", grammar |-> grammar, str |-> str]
    /\ Returned(parseParam(str))

NextParse ==
    \/ \E type \in CompactTypes, array \in BOOLEAN, literal \in DefaultLiterals :
         ParseCompactCall(type, array, TRUE, literal)
    \/ \E type \in CompactTypes, array \in BOOLEAN :
         ParseCompactCall(type, array, FALSE, <<>>)
    \/ \E str \in OddStrings : ParseParamCall("odd", str)
    \/ \E str \in StructuredSpecs : ParseParamCall("structured", str)
    \/ \E str \in OtherSpecs : ParseParamCall("other", str)

SpecParse == InitCalls /\ [][NextParse]_vars

----------------------------------------------------------------------------
(* Direct calls of checkParams *)

\* How many values a request holds at most for one name.
MaxItems == 2

\* A raw value of a request that holds the same name several times.
ItemStrings == {<<>>, <<"a">>, <<"a", "b", "c", "d">>, <<"0">>, <<"5">>}

RECURSIVE Tuples(_, _)
\* The sequences of n elements of set.
Tuples(set, n) ==
    IF n = 0 THEN {<<>>}
    ELSE {Append(t, x) : t \in Tuples(set, n - 1), x \in set}

RawValues ==
    {Undef, Str(<<>>), Str(<<"a">>), Str(<<"a", "b">>), Str(<<"a", "b", "c", "d">>),
     Str(<<"0">>), Str(<<"1">>), Str(<<"2", ".", "5">>), Str(<<"5">>), Str(<<"-", "1">>),
     Str(<<"a", ",", "a", "b", "c", "d">>), Str(<<"a", "b", "c", "d", ",", "a">>),
     Str(<<"5", ",", "0">>), Str(L_true)}
    \cup {Arr(Strs(t)) : t \in UNION {Tuples(ItemStrings, n) : n \in 2 .. MaxItems}}

\* min and max: not declared, one, both, and min above max.
BoundPairs ==
    {<<Undef, Undef>>, <<Whole(2), Undef>>, <<Undef, Whole(3)>>,
     <<Whole(2), Whole(3)>>, <<Whole(3), Whole(1)>>}

\* Validators: one that finds every value wrong, one that finds an absent
\* value wrong, one that finds none wrong, one that answers with a falsy
\* value that is not undefined.
Validators ==
    {Undef, Validator("all", "always", Str(<<"b", "a", "d">>)),
     Validator("absent", "absent", Str(MissingMsg)),
     Validator("none", "always", Undef),
     Validator("zero", "always", Whole(0))}

\* A structured specification of the parameter, required (nothing declared)
\* or not (required: false).
CheckedSpecs ==
    {ParamDef(type, Undef, required, array, bounds[1], bounds[2], validate) :
        type \in {T_string, T_number, T_integer, T_boolean, T_any},
        required \in {Undef, Bool(FALSE)}, array \in {Undef, Bool(TRUE)},
        bounds \in BoundPairs, validate \in Validators}

\* The configuration of an endpoint with the one parameter p.
ConfigOf(spec) ==
    configure(configuration, "/a", "get",
              Api(Obj("p" :> spec), Undef, "", Undef, Undef, Undef), <<>>).api

\* A request with raw under the name p in its query.
RequestOf(raw) ==
    [path |-> "/a", method |-> "get", incomingVersion |-> 1,
     props |-> ("query" :> (IF raw = Undef THEN Obj(EmptyMap) ELSE Obj("p" :> raw)))
               @@ ("body" :> Undef)]

\* checkParams(config, params) for the endpoint and what getParams found on
\* the request.
CheckParamsCall(spec, raw) ==
    /\ pc = "idle"
    /\ call' = [fn |-> "checkParams", config |-> ConfigOf(spec),
                params |-> getParams(ConfigOf(spec), RequestOf(raw))]
    /\ Returned(checkParams(ConfigOf(spec), getParams(ConfigOf(spec), RequestOf(raw))))

NextCheck ==
    /\ pc = "idle"
    /\ \E spec \in CheckedSpecs, raw \in RawValues : CheckParamsCall(spec, raw)

SpecCheck == InitCalls /\ [][NextCheck]_vars

----------------------------------------------------------------------------
(* Properties of the pipeline *)

\* A request went through verify.
Verified == pc = "done" /\ middleware[received.path] = "verify"

\* The configuration verify looked up for it.
Config ==
    EndpointsGet(endpoints, received.path, received.method, received.incomingVersion)

\* verify found a configuration for it.
Found == Verified /\ Truthy(Config)

\* getParams returned for it.
Extracted == Found /\ ~Threw(params)

\* checkParams recorded no error for it.
Accepted == Extracted /\ Keys(missing) = {}

\* checkParams recorded an error for it.
Rejected == Extracted /\ Keys(missing) # {}

Continuations == {i \in DOMAIN out : out[i].ev \in {"next", "hook"}}
Responses == {i \in DOMAIN out : out[i].ev = "respond"}

\* C1: whatever path a request takes through verify, exactly one terminal
\* action happens, once: the continuation is invoked (directly or handed to a
\* hook) or a response is sent; never both, never one twice.
C1_ExactlyOneTerminalAction ==
    Verified => Cardinality(Continuations) + Cardinality(Responses) = 1

\* An accepted request was handed to the success hook of its endpoint.
C1_Witness ==
    /\ pc = "done"
    /\ Accepted
    /\ out = <<HookEvent(ApiSuccess, Null)>>

\* The positions in paramOrder of the sources that hold name.
Holders(name) ==
    {i \in DOMAIN Config.paramOrder.v :
        name \in Keys(Prop(received, Config.paramOrder.v[i]))}

\* The raw value the i-th source of paramOrder holds for name.
RawAt(name, i) == Prop(received, Config.paramOrder.v[i]).m[name]

NonEmptyRaw(raw) == raw.k \in {"string", "array"} /\ Len(raw.v) > 0

\* C2: for a declared name that appears in more than one configured source,
\* getParams records the coerced value of the earliest source in paramOrder
\* that holds a non-empty raw value for it.
C2_EarliestSourceWins ==
    Extracted =>
        \A name \in Keys(Config.params) :
            LET nonEmpty == {i \in Holders(name) : NonEmptyRaw(RawAt(name, i))}
            IN Cardinality(Holders(name)) > 1 /\ nonEmpty # {} =>
                 params.m[name] =
                    parseValue(Config.params.m[name].type,
                               RawAt(name, CHOOSE i \in nonEmpty : \A j \in nonEmpty : i <= j),
                               Truthy(Config.params.m[name].array))

\* C3: when checkParams records no error, the request gets, under the name
\* paramMap, a map holding for every declared parameter the extracted value
\* if there is one and the default otherwise, and the chain continues:
\* through the success hook of the endpoint if it has one, else directly.
C3_AcceptedRequestGetsFilledMap ==
    Accepted =>
        /\ Keys(Prop(req, Config.paramMap)) = Keys(Config.params)
        /\ \A name \in Keys(Config.params) :
              Prop(req, Config.paramMap).m[name] =
                 IF params.m[name] # Undef THEN params.m[name]
                 ELSE Config.params.m[name].default
        /\ out = IF Truthy(Config.success)
                 THEN <<HookEvent(Config.success, Null)>>
                 ELSE <<NextEvent>>

\* params: {name: 'string', age: 'integer(18)'}, the request supplies only
\* name=Al: the map is {name: 'Al', age: 18} and the request proceeds.
C3_Witness ==
    /\ pc = "done"
    /\ Accepted
    /\ Prop(req, "args") = Obj(("name" :> Str(<<"A", "l">>)) @@ ("age" :> Whole(18)))
    /\ out = <<NextEvent>>

\* The request holds name in none of the sources of paramOrder.
Omits(name) == Holders(name) = {}

\* C4: a request that omits a required parameter (no validator and no error
\* hook at any level) is answered 422 and not accepted: no map is attached,
\* and the body holds {name: {type, error: 'not set'}} in development and is
\* absent otherwise.
C4_OmittedRequiredRejected ==
    Found =>
        \A name \in Keys(Config.params) :
            /\ Truthy(Config.params.m[name].required)
            /\ Omits(name)
            /\ \A other \in Keys(Config.params) : ~Truthy(Config.params.m[other].validate)
            /\ ~Truthy(Config.error)
            /\ ~Truthy(configuration.error)
            => /\ req = received
               /\ Len(out) = 1
               /\ out[1].ev = "respond"
               /\ out[1].status = 422
               /\ IF nodeEnv = "development"
                  THEN /\ out[1].body # Null
                       /\ name \in Keys(out[1].body.params)
                       /\ out[1].body.params.m[name] =
                             MissingInfo(Config.params.m[name].type, Str(NotSetMsg),
                                         Undef, Undef)
                  ELSE out[1].body = Null

\* C6: an endpoint registered without an error, success or validate hook
\* uses the process-wide one; a hook of the endpoint comes first.
C6_ProcessWideHooksUsed ==
    Found =>
        /\ Rejected \/ Threw(params) =>
              out = <<HookEvent(Or(Config.error, configuration.error),
                                IF Threw(params) THEN params ELSE missing)>>
              \/ (~Truthy(Config.error) /\ ~Truthy(configuration.error))
        /\ Accepted =>
              out = <<HookEvent(Or(Config.success, configuration.success), Null)>>
              \/ (~Truthy(Config.success) /\ ~Truthy(configuration.success))
        /\ \A name \in Keys(Config.params) :
              \/ Config.params.m[name].validate = ParamValidate
              \/ Config.params.m[name].validate = Or(Config.validate, configuration.validate)

RecognizedTypes ==
    {T_star, T_any, T_string, T_bool, T_boolean, T_number, T_float, T_double,
     T_integer, T_short}

\* C8: a parameter specification with an unrecognized type, compact or
\* structured, makes registration fail, so that no registered endpoint has
\* one and no extraction throws at request time.
C8_UnknownTypeFailsRegistration ==
    /\ \A e \in endpoints : \A name \in Keys(e.api.params) :
          e.api.params.m[name].type \in RecognizedTypes
    /\ pc = "done" /\ Found => ~Threw(params)

----------------------------------------------------------------------------
(* Properties of parseParam *)

\* parseParam returned a definition.
Parsed == pc = "done" /\ call.fn = "parseParam" /\ ~Threw(result)

\* C7: a definition parseParam returns is required only without a default;
\* for a compact specification it is required exactly when no parenthesized
\* segment is there (an empty "()" makes it not required).
C7_RequiredImpliesNoDefault ==
    Parsed =>
        /\ result.required \in {Bool(TRUE), Bool(FALSE)}
        /\ result.required = Bool(TRUE) => result.default = Undef
        /\ call.grammar = "compact" => (result.required = Bool(TRUE) <=> ~call.segment)

\* {required: true, default: 5} is not required.
C7_Witness ==
    /\ Parsed
    /\ call.grammar = "structured"
    /\ call.str.required = Bool(TRUE)
    /\ call.str.default = Whole(5)
    /\ result.required = Bool(FALSE)
    /\ result.default = Whole(5)

----------------------------------------------------------------------------
(* Properties of checkParams *)

\* checkParams returned.
Checked == pc = "done" /\ call.fn = "checkParams"

\* The definition of the parameter p, its value, and its entry of the errors.
Def == call.config.params.m["p"]
Value == call.params.m["p"]
Entry == IF "p" \in Keys(result) THEN result.m["p"] ELSE Undef

\* C5: for a parameter with a validator, an error is recorded exactly when
\* the validator answers a truthy value, it is {type, error: the answer},
\* and the required and min/max checks add or change nothing.
C5_ValidatorDecides ==
    Checked /\ Truthy(Def.validate) =>
        /\ Entry # Undef <=> Truthy(CallValidate(Def.validate, Value, "p", Def))
        /\ Entry # Undef =>
              Entry = MissingInfo(Def.type, CallValidate(Def.validate, Value, "p", Def),
                                  Undef, Undef)

\* The validator answers a falsy value for an absent required parameter: no
\* error.
C5_Witness ==
    /\ Checked
    /\ Def.validate = Validator("zero", "always", Whole(0))
    /\ Def.required = Bool(TRUE)
    /\ Value = Undef
    /\ Keys(result) = {}

\* The values checkParams loops over.
Elements == IF Value.k = "array" THEN Value.v ELSE <<Value>>

\* What min and max bound in a value of the parameter: the number of
\* characters of a string, the value of a number (in tenths, as the bounds).
Size(v) == IF Def.type = T_string THEN 10 * Len(v.v) ELSE v.v

Sized(v) ==
    \/ Def.type = T_string /\ v.k = "string"
    \/ Def.type = T_number /\ v.k = "number"

Above(v) == Sized(v) /\ Def.max # Undef /\ Size(v) > Def.max.v
Below(v) == Sized(v) /\ Def.min # Undef /\ Size(v) < Def.min.v

OutOfRange == Entry # Undef /\ Entry.error \in {Str(ExceedsMaxMsg), Str(BelowMinMsg)}

\* C9: for a string or number parameter without validator and with a min or
\* max, an out-of-range error is recorded exactly when some value is below
\* min or above max; for another type never.
C9_OutOfRangeIff ==
    Checked /\ ~Truthy(Def.validate) =>
        IF Def.type \in {T_string, T_number}
        THEN Def.min # Undef \/ Def.max # Undef =>
                (OutOfRange <=> \E i \in DOMAIN Elements : Above(Elements[i]) \/ Below(Elements[i]))
        ELSE ~OutOfRange

\* The values the built-in checks look at: the truthy ones.
Looked(i) == Truthy(Elements[i])

\* C10: the one entry of a parameter is the last error written, the checks
\* running in the order required, then per value max, then min: a value
\* that is above max and below min is reported as below min.
C10_LastWriteWins ==
    Checked /\ ~Truthy(Def.validate) =>
        LET wrong == {i \in DOMAIN Elements :
                        Looked(i) /\ (Above(Elements[i]) \/ Below(Elements[i]))}
            last == CHOOSE i \in wrong : \A j \in wrong : j <= i
        IN /\ Keys(result) \subseteq {"p"}
           /\ IF wrong # {}
              THEN Entry = IF Below(Elements[last])
                           THEN MissingInfo(Def.type, Str(BelowMinMsg), Def.min, Undef)
                           ELSE MissingInfo(Def.type, Str(ExceedsMaxMsg), Undef, Def.max)
              ELSE IF Truthy(Def.required) /\ (Value = Undef \/ Elements = <<>>)
              THEN Entry = MissingInfo(Def.type, Str(NotSetMsg), Undef, Undef)
              ELSE Entry = Undef

\* 'ab' with max 1 and min 3 is reported as below min.
C10_Witness ==
    /\ Checked
    /\ ~Truthy(Def.validate)
    /\ Value = Str(<<"a", "b">>)
    /\ Def.max = Whole(1)
    /\ Def.min = Whole(3)
    /\ Entry = MissingInfo(T_string, Str(BelowMinMsg), Whole(3), Undef)

=============================================================================
